---- MODULE Spec2Model ----
(***************************************************************************)
(* The block-publication pipeline of beacon_node/http_api:                 *)
(* publish_block, publish_blinded_block and reconstruct_block of           *)
(* src/beacon_node/http_api/src/publish_blocks.rs.                         *)
(*                                                                         *)
(* Every invocation of the pipeline is a process with its own program      *)
(* counter; one action is one stretch of code between two collaborator     *)
(* interactions (network channel, metrics, chain import, validator         *)
(* monitor, head recomputation, payload cache, builder).                   *)
(***************************************************************************)
EXTENDS Integers, Sequences, FiniteSets, TLC

(***************************************************************************)
(* Bounds of the model.                                                    *)
(***************************************************************************)
\* Slots and block hashes are drawn from 0..MaxVal; the other fields (hashes, roots,
\* indices, lists of operations) hold 0 or MaxVal.
MaxVal == 1
\* A transaction list is empty or holds the transaction MaxTx.
MaxTx == 1
\* timestamp_now() returns 0 or MaxTime.
MaxTime == 5
\* The attestation-production delay of the slot clock.
MaxThreshold == 4
\* The number of invocations of the pipeline that may be in flight together.
NumInvocations == 2

Vals == 0..MaxVal
Invocations == 1..NumInvocations

(***************************************************************************)
(* Data: hashes are modelled as injective taggings of what they hash.      *)
(***************************************************************************)
\* TreeHash::tree_hash_root of a value.
TreeHashRoot(x) == <<"tree_hash_root", x>>

\* ExecutionBlockHash::zero()
ZeroBlockHash == 0

\* The non-transaction fields of ExecutionPayload / ExecutionPayloadHeader.
HeaderFields ==
    {"parent_hash", "fee_recipient", "state_root", "receipts_root", "logs_bloom",
     "prev_randao", "block_number", "gas_limit", "gas_used", "timestamp",
     "extra_data", "base_fee_per_gas", "block_hash"}

\* The fields of a body common to every fork.
BodyFields ==
    {"randao_reveal", "eth1_data", "graffiti", "proposer_slashings",
     "attester_slashings", "attestations", "deposits", "voluntary_exits"}

\* ExecutionPayload::default(): zero-valued header fields and no transactions.
DefaultExecutionPayload ==
    [parent_hash |-> 0, fee_recipient |-> 0, state_root |-> 0, receipts_root |-> 0,
     logs_bloom |-> 0, prev_randao |-> 0, block_number |-> 0, gas_limit |-> 0,
     gas_used |-> 0, timestamp |-> 0, extra_data |-> 0, base_fee_per_gas |-> 0,
     block_hash |-> ZeroBlockHash, transactions |-> << >>]

\* A full execution payload whose header fields all hold w, with transactions txs.
UniformPayload(w, txs) ==
    [parent_hash |-> w, fee_recipient |-> w, state_root |-> w, receipts_root |-> w,
     logs_bloom |-> w, prev_randao |-> w, block_number |-> w, gas_limit |-> w,
     gas_used |-> w, timestamp |-> w, extra_data |-> w, base_fee_per_gas |-> w,
     block_hash |-> w, transactions |-> txs]

\* An ExecutionPayloadHeader: block hash bh, field d (if a header field) set to v,
\* every other field zero, committing to the transaction list txs.
Header(d, v, bh, txs) ==
    LET V(f) == IF f = d THEN v ELSE 0 IN
    [parent_hash |-> V("payload.parent_hash"), fee_recipient |-> V("payload.fee_recipient"),
     state_root |-> V("payload.state_root"), receipts_root |-> V("payload.receipts_root"),
     logs_bloom |-> V("payload.logs_bloom"), prev_randao |-> V("payload.prev_randao"),
     block_number |-> V("payload.block_number"), gas_limit |-> V("payload.gas_limit"),
     gas_used |-> V("payload.gas_used"), timestamp |-> V("payload.timestamp"),
     extra_data |-> V("payload.extra_data"), base_fee_per_gas |-> V("payload.base_fee_per_gas"),
     block_hash |-> bh, transactions_root |-> TreeHashRoot(txs)]

\* The names of the fields that one input block may set to a non-zero value.
MessageFieldNames == {"slot", "proposer_index", "parent_root", "state_root", "signature"}
AltairFieldNames == MessageFieldNames \cup BodyFields \cup {"sync_aggregate"}
BaseFieldNames == MessageFieldNames \cup BodyFields
PayloadFieldNames ==
    {"payload.parent_hash", "payload.fee_recipient", "payload.state_root",
     "payload.receipts_root", "payload.logs_bloom", "payload.prev_randao",
     "payload.block_number", "payload.gas_limit", "payload.gas_used",
     "payload.timestamp", "payload.extra_data", "payload.base_fee_per_gas"}
MergeFieldNames == AltairFieldNames \cup PayloadFieldNames

\* SignedBeaconBlock::Base: every field zero but d, which holds v.
BlockBase(d, v) ==
    LET V(f) == IF f = d THEN v ELSE 0 IN
    [variant |-> "Base",
     message |-> [slot |-> V("slot"), proposer_index |-> V("proposer_index"),
                  parent_root |-> V("parent_root"), state_root |-> V("state_root"),
                  body |-> [randao_reveal |-> V("randao_reveal"), eth1_data |-> V("eth1_data"),
                            graffiti |-> V("graffiti"),
                            proposer_slashings |-> V("proposer_slashings"),
                            attester_slashings |-> V("attester_slashings"),
                            attestations |-> V("attestations"), deposits |-> V("deposits"),
                            voluntary_exits |-> V("voluntary_exits"),
                            phantom |-> "PhantomData"]],
     signature |-> V("signature")]

\* SignedBeaconBlock::Altair: every field zero but d, which holds v.
BlockAltair(d, v) ==
    LET V(f) == IF f = d THEN v ELSE 0 IN
    [variant |-> "Altair",
     message |-> [slot |-> V("slot"), proposer_index |-> V("proposer_index"),
                  parent_root |-> V("parent_root"), state_root |-> V("state_root"),
                  body |-> [randao_reveal |-> V("randao_reveal"), eth1_data |-> V("eth1_data"),
                            graffiti |-> V("graffiti"),
                            proposer_slashings |-> V("proposer_slashings"),
                            attester_slashings |-> V("attester_slashings"),
                            attestations |-> V("attestations"), deposits |-> V("deposits"),
                            voluntary_exits |-> V("voluntary_exits"),
                            sync_aggregate |-> V("sync_aggregate"),
                            phantom |-> "PhantomData"]],
     signature |-> V("signature")]

\* SignedBeaconBlock::Merge carrying the payload field ep (a FullPayload or a
\* BlindedPayload): every other field zero but d, which holds v.
BlockMerge(d, v, ep) ==
    LET V(f) == IF f = d THEN v ELSE 0 IN
    [variant |-> "Merge",
     message |-> [slot |-> V("slot"), proposer_index |-> V("proposer_index"),
                  parent_root |-> V("parent_root"), state_root |-> V("state_root"),
                  body |-> [randao_reveal |-> V("randao_reveal"), eth1_data |-> V("eth1_data"),
                            graffiti |-> V("graffiti"),
                            proposer_slashings |-> V("proposer_slashings"),
                            attester_slashings |-> V("attester_slashings"),
                            attestations |-> V("attestations"), deposits |-> V("deposits"),
                            voluntary_exits |-> V("voluntary_exits"),
                            sync_aggregate |-> V("sync_aggregate"),
                            execution_payload |-> ep]],
     signature |-> V("signature")]

\* BlindedPayload { execution_payload_header } and FullPayload { execution_payload }.
BlindedPayload(h) == [execution_payload_header |-> h]
FullPayload(p) == [execution_payload |-> p]

\* An ExecutionPayloadHeader whose fields all hold w, committing to txs.
UniformHeader(w, txs) ==
    [parent_hash |-> w, fee_recipient |-> w, state_root |-> w, receipts_root |-> w,
     logs_bloom |-> w, prev_randao |-> w, block_number |-> w, gas_limit |-> w,
     gas_used |-> w, timestamp |-> w, extra_data |-> w, base_fee_per_gas |-> w,
     block_hash |-> w, transactions_root |-> TreeHashRoot(txs)]

\* The transaction lists and the header values that payloads are built from here.
SampleTxLists == {<< >>, <<MaxTx>>}
SampleVals == {0, MaxVal}

\* The blinded Merge payloads whose header is uniform: the payload cache is keyed by
\* the roots of these.
UniformBlindedPayloads ==
    {BlindedPayload(UniformHeader(w, txs)) : w \in SampleVals, txs \in SampleTxLists}

\* The ways an input block departs from the all-zero block: one field holds MaxVal,
\* or the slot holds any value.
Deviations(fields) ==
    {<<d, MaxVal>> : d \in fields} \cup {<<"slot", v>> : v \in Vals}

\* The blinded blocks a caller may submit: SignedBeaconBlock<E, BlindedPayload<E>>.
BlindedBlocks ==
    {BlockBase(dv[1], dv[2]) : dv \in Deviations(BaseFieldNames)}
    \cup {BlockAltair(dv[1], dv[2]) : dv \in Deviations(AltairFieldNames)}
    \cup UNION {{BlockMerge(dv[1], dv[2], BlindedPayload(Header(dv[1], dv[2], bh, << >>))) :
                    dv \in Deviations(MergeFieldNames)} : bh \in Vals}
    \cup {BlockMerge("none", 0, ep) : ep \in UniformBlindedPayloads}

\* The full payloads the payload cache or the builder may hold for a root: they need
\* not agree with the header they are served for.
ResolvedPayloads == {UniformPayload(w, txs) : w \in SampleVals, txs \in SampleTxLists}

\* The full blocks a caller may submit: SignedBeaconBlock<E, FullPayload<E>>.
FullBlocks ==
    {BlockBase("slot", v) : v \in Vals}
    \cup {BlockAltair("slot", v) : v \in Vals}
    \cup {BlockMerge("slot", v, FullPayload(p)) : v \in Vals, p \in ResolvedPayloads}

(***************************************************************************)
(* Collaborator values.                                                    *)
(***************************************************************************)
\* The errors chain.process_block may return, and those of the builder.
ImportErrors == {"BlockIsAlreadyKnown", "ParentUnknown"}
BuilderErrors == {"NoPayloadBuilder", "BuilderTimeout"}

\* format!("{:?}", e)
DebugFormat(e) == <<"Debug", e>>

\* warp_utils::reject::broadcast_without_import(msg), custom_server_error(msg)
BroadcastWithoutImport(msg) == [rejection |-> "broadcast_without_import", msg |-> msg]
CustomServerError(msg) == [rejection |-> "custom_server_error", msg |-> msg]
\* The rejection of crate::publish_pubsub_message when the channel send fails.
TransportError == [rejection |-> "transport_error", msg |-> "unable to publish to network channel"]

OkUnit == [ok |-> "()"]
NoResult == [pending |-> TRUE]

\* Option::None, for chain.execution_layer and for the locals not yet assigned.
None == [none |-> TRUE]

\* PubsubMessage::BeaconBlock(block)
PubsubBeaconBlock(block) == [topic |-> "BeaconBlock", block |-> block]

\* The canonical root chain.process_block returns for an imported block.
BlockRoot(block) == TreeHashRoot(block.message)

\* slot_clock.start_of(slot), from the genesis of the clock.
StartOfSlot(clock, slot) == clock.slot_duration * slot

\* beacon_chain::validator_monitor::get_block_delay_ms: the time from the start of the
\* block's slot to seen_timestamp, zero when the block was seen before its slot.
GetBlockDelayMs(seen_timestamp, message, clock) ==
    LET slot_start == StartOfSlot(clock, message.slot) IN
    IF seen_timestamp >= slot_start THEN seen_timestamp - slot_start ELSE 0

\* el.get_payload_by_root(&payload_root): the cached payload, if any.
GetPayloadByRoot(el, root) ==
    IF \E c \in el.payload_cache : c.root = root
    THEN (CHOOSE c \in el.payload_cache : c.root = root).payload
    ELSE None

(***************************************************************************)
(* reconstruct_block: the reassembly of the three fork variants.           *)
(***************************************************************************)
\* SignedBeaconBlock::Base(b) => ... (lines 125-168)
ReconstructBase(b) ==
    LET message == b.message
        signature == b.signature
        body == message.body
    IN  [variant |-> "Base",
         message |-> [slot |-> message.slot,
                      proposer_index |-> message.proposer_index,
                      parent_root |-> message.parent_root,
                      state_root |-> message.state_root,
                      body |-> [randao_reveal |-> body.randao_reveal,
                                eth1_data |-> body.eth1_data,
                                graffiti |-> body.graffiti,
                                proposer_slashings |-> body.proposer_slashings,
                                attester_slashings |-> body.attester_slashings,
                                attestations |-> body.attestations,
                                deposits |-> body.deposits,
                                voluntary_exits |-> body.voluntary_exits,
                                phantom |-> "PhantomData"]],
         signature |-> signature]

\* A variant of ReconstructAltair: the sync aggregate is not carried over.
ReconstructAltairWithoutSyncAggregate(b) ==
    [b EXCEPT !.message.body.sync_aggregate = 0]

\* SignedBeaconBlock::Altair(b) => ... (lines 169-216)
ReconstructAltair(b) ==
    LET message == b.message
        signature == b.signature
        body == message.body
        full_body == [randao_reveal |-> body.randao_reveal,
                      eth1_data |-> body.eth1_data,
                      graffiti |-> body.graffiti,
                      proposer_slashings |-> body.proposer_slashings,
                      attester_slashings |-> body.attester_slashings,
                      attestations |-> body.attestations,
                      deposits |-> body.deposits,
                      voluntary_exits |-> body.voluntary_exits,
                      sync_aggregate |-> body.sync_aggregate,
                      phantom |-> "PhantomData"]
    IN  [variant |-> "Altair",
         message |-> [slot |-> message.slot,
                      proposer_index |-> message.proposer_index,
                      parent_root |-> message.parent_root,
                      state_root |-> message.state_root,
                      body |-> full_body],
         signature |-> signature]

\* A variant of PayloadRoot: the cache is asked for the root of the block.
PayloadRootOfBlock(b) == TreeHashRoot(b.message)

\* let payload_root = execution_payload.tree_hash_root(); (line 241)
PayloadRoot(b) == TreeHashRoot(b.message.body.execution_payload)

\* A variant of ReassemblePayload: the resolved payload is used as it came.
ReassembleFromResolved(header, full_payload) == full_payload

\* The ExecutionPayload built at lines 304-319: the header fields of the blinded
\* header, the transactions of the resolved payload.
ReassemblePayload(header, full_payload) ==
    [parent_hash |-> header.parent_hash,
     fee_recipient |-> header.fee_recipient,
     state_root |-> header.state_root,
     receipts_root |-> header.receipts_root,
     logs_bloom |-> header.logs_bloom,
     prev_randao |-> header.prev_randao,
     block_number |-> header.block_number,
     gas_limit |-> header.gas_limit,
     gas_used |-> header.gas_used,
     timestamp |-> header.timestamp,
     extra_data |-> header.extra_data,
     base_fee_per_gas |-> header.base_fee_per_gas,
     block_hash |-> header.block_hash,
     transactions |-> full_payload.transactions]

\* A variant of ReconstructMerge: the sync aggregate is not carried over.
ReconstructMergeWithoutSyncAggregate(b, full_payload) ==
    [variant |-> "Merge",
     message |->
        [b.message EXCEPT
            !.body = [@ EXCEPT
                !.sync_aggregate = 0,
                !.execution_payload =
                    FullPayload(ReassemblePayload(@.execution_payload_header, full_payload))]],
     signature |-> b.signature]

\* SignedBeaconBlock::Merge(SignedBeaconBlockMerge { ... }) of lines 287-324, from
\* the blinded block b and the payload resolved at lines 269-285.
ReconstructMerge(b, full_payload) ==
    LET message == b.message
        signature == b.signature
        body == message.body
        execution_payload_header == body.execution_payload.execution_payload_header
    IN  [variant |-> "Merge",
         message |-> [slot |-> message.slot,
                      proposer_index |-> message.proposer_index,
                      parent_root |-> message.parent_root,
                      state_root |-> message.state_root,
                      body |-> [randao_reveal |-> body.randao_reveal,
                                eth1_data |-> body.eth1_data,
                                graffiti |-> body.graffiti,
                                proposer_slashings |-> body.proposer_slashings,
                                attester_slashings |-> body.attester_slashings,
                                attestations |-> body.attestations,
                                deposits |-> body.deposits,
                                voluntary_exits |-> body.voluntary_exits,
                                sync_aggregate |-> body.sync_aggregate,
                                execution_payload |->
                                    FullPayload(ReassemblePayload(execution_payload_header,
                                                                  full_payload))]],
         signature |-> signature]

\* The block hash of the blinded header (line 260).
HeaderBlockHash(b) == b.message.body.execution_payload.execution_payload_header.block_hash

\* A variant of IsZeroHash: the parent hash is the one compared with zero.
IsZeroParentHash(b) ==
    b.message.body.execution_payload.execution_payload_header.parent_hash = ZeroBlockHash

\* *block_hash == ExecutionBlockHash::zero() (line 269)
IsZeroHash(b) == HeaderBlockHash(b) = ZeroBlockHash


(***************************************************************************)
(* State.                                                                  *)
(***************************************************************************)
VARIABLES
    execution_layer,   \* chain.execution_layer: None, or the provider with its payload cache
    slot_clock,        \* chain.slot_clock: slot duration and attestation-production delay
    network_tx,        \* the messages sent on the network channel, in order
    metrics,           \* the observations of HTTP_API_BLOCK_BROADCAST_DELAY_TIMES, in order
    import_queue,      \* the blocks handed to chain.process_block, in order
    validator_monitor, \* the blocks registered with the validator monitor, in order
    monitor_readers,   \* the invocations holding validator_monitor.read()
    head_recomputes,   \* the number of calls of chain.recompute_head_at_current_slot
    cache_lookups,     \* the roots looked up in the payload cache, in order
    builder_requests,  \* the blinded blocks handed to propose_blinded_beacon_block, in order
    log,               \* the records written to the logger, in order
    inv                \* the invocations: program counter, locals, result, calls made

vars == <<execution_layer, slot_clock, network_tx, metrics, import_queue,
          validator_monitor, monitor_readers, head_recomputes, cache_lookups,
          builder_requests, log, inv>>

\* The variables of the collaborators, for the actions that leave them alone.
chain_config == <<execution_layer, slot_clock>>

\* An invocation that has not been called yet. A local that is not bound yet is None;
\* the timestamp, the delay and the root, once bound, are [some |-> value].
IdleInvocation ==
    [pc |-> "idle", entry |-> "none", blinded |-> None, full_payload |-> None,
     block |-> None, seen_timestamp |-> None, delay |-> None, root |-> None,
     cause |-> "none", result |-> NoResult, trace |-> << >>]

\* The execution layers a node may be configured with: none, or one whose payload
\* cache is empty or holds one payload under the root of one blinded payload.
CacheKeys == {TreeHashRoot(ep) : ep \in UniformBlindedPayloads}
ExecutionLayers ==
    {None, [payload_cache |-> {}]}
    \cup {[payload_cache |-> {[root |-> r, payload |-> p]}] :
             r \in CacheKeys, p \in ResolvedPayloads}

\* The slot clocks of the node: its slot duration, and the delay after the start of
\* a slot at which unaggregated attestations are produced.
SlotClocks ==
    [slot_duration : {2}, unagg_attestation_production_delay : {MaxThreshold}]

Init ==
    /\ execution_layer \in ExecutionLayers
    /\ slot_clock \in SlotClocks
    /\ network_tx = << >>
    /\ metrics = << >>
    /\ import_queue = << >>
    /\ validator_monitor = << >>
    /\ monitor_readers = {}
    /\ head_recomputes = 0
    /\ cache_lookups = << >>
    /\ builder_requests = << >>
    /\ log = << >>
    /\ inv = [i \in Invocations |-> IdleInvocation]

NoUpdate == [f \in {} |-> None]

\* The number of times x occurs in the sequence seq, and whether it occurs.
Count(seq, x) == Cardinality({k \in DOMAIN seq : seq[k] = x})
Has(seq, x) == \E k \in DOMAIN seq : seq[k] = x

\* The invocation i moves to pc with the fields of upd changed; ops, the collaborator
\* calls and returns of the step, are appended to its trace.
Step(i, pc, ops, upd) ==
    inv' = [inv EXCEPT ![i] =
                [f \in DOMAIN @ |->
                    IF f = "pc" THEN pc
                    ELSE IF f = "trace" THEN @.trace \o ops
                    ELSE IF f \in DOMAIN upd THEN upd[f]
                    ELSE @[f]]]

(***************************************************************************)
(* The entry points.                                                       *)
(***************************************************************************)
\* A caller invokes publish_block(block, chain, network_tx, log).
CallPublishBlock(i, b) ==
    /\ inv[i].pc = "idle"
    /\ Step(i, "publish_block", <<"publish_block">>, [entry |-> "publish_block", block |-> b])
    /\ UNCHANGED <<chain_config, network_tx, metrics, import_queue, validator_monitor,
                   monitor_readers, head_recomputes, cache_lookups, builder_requests, log>>

\* A caller invokes publish_blinded_block(block, chain, network_tx, log): line 112
\* calls reconstruct_block first.
CallPublishBlindedBlock(i, b) ==
    /\ inv[i].pc = "idle"
    /\ Step(i, "reconstruct_block", <<"publish_blinded_block">>,
            [entry |-> "publish_blinded_block", blinded |-> b])
    /\ UNCHANGED <<chain_config, network_tx, metrics, import_queue, validator_monitor,
                   monitor_readers, head_recomputes, cache_lookups, builder_requests, log>>


(***************************************************************************)
(* reconstruct_block (lines 119-328).                                      *)
(***************************************************************************)
LogLocalPayload(cached_payload) ==
    [level |-> "INFO", msg |-> "Reconstructing a full block using a local payload",
     block_hash |-> cached_payload.block_hash]
LogBuilderPayload(full_payload) ==
    [level |-> "INFO", msg |-> "Successfully published a block to the builder network",
     block_hash |-> full_payload.block_hash]

\* The Base arm (lines 125-168), then Ok(full_block) and line 113.
ReconstructBaseBlock(i) ==
    /\ inv[i].pc = "reconstruct_block"
    /\ inv[i].blinded.variant = "Base"
    /\ Step(i, "publish_block", <<"copied">>, [block |-> ReconstructBase(inv[i].blinded)])
    /\ UNCHANGED <<chain_config, network_tx, metrics, import_queue, validator_monitor,
                   monitor_readers, head_recomputes, cache_lookups, builder_requests, log>>

\* The Altair arm (lines 169-216), then Ok(full_block) and line 113.
ReconstructAltairBlock(i) ==
    /\ inv[i].pc = "reconstruct_block"
    /\ inv[i].blinded.variant = "Altair"
    /\ Step(i, "publish_block", <<"copied">>, [block |-> ReconstructAltair(inv[i].blinded)])
    /\ UNCHANGED <<chain_config, network_tx, metrics, import_queue, validator_monitor,
                   monitor_readers, head_recomputes, cache_lookups, builder_requests, log>>

\* The Merge arm with no execution layer: lines 264-266 return the rejection, and
\* the ? of line 112 returns it from publish_blinded_block.
MissingExecutionLayer(i) ==
    /\ inv[i].pc = "reconstruct_block"
    /\ inv[i].blinded.variant = "Merge"
    /\ execution_layer = None
    /\ Step(i, "done", <<"missing_execution_layer">>,
            [result |-> CustomServerError("Missing execution layer")])
    /\ UNCHANGED <<chain_config, network_tx, metrics, import_queue, validator_monitor,
                   monitor_readers, head_recomputes, cache_lookups, builder_requests, log>>

\* A variant of ZeroHashPayload: the block hash is looked at before the execution layer.
ZeroHashBeforeExecutionLayer(i) ==
    /\ inv[i].pc = "reconstruct_block"
    /\ inv[i].blinded.variant = "Merge"
    /\ IsZeroHash(inv[i].blinded)
    /\ Step(i, "publish_block", <<"default_payload">>,
            [full_payload |-> DefaultExecutionPayload,
             block |-> ReconstructMerge(inv[i].blinded, DefaultExecutionPayload)])
    /\ UNCHANGED <<chain_config, network_tx, metrics, import_queue, validator_monitor,
                   monitor_readers, head_recomputes, cache_lookups, builder_requests, log>>

\* The Merge arm with a zero block hash: lines 269-270 take the default payload.
ZeroHashPayload(i) ==
    /\ inv[i].pc = "reconstruct_block"
    /\ inv[i].blinded.variant = "Merge"
    /\ execution_layer # None
    /\ IsZeroHash(inv[i].blinded)
    /\ Step(i, "publish_block", <<"default_payload">>,
            [full_payload |-> DefaultExecutionPayload,
             block |-> ReconstructMerge(inv[i].blinded, DefaultExecutionPayload)])
    /\ UNCHANGED <<chain_config, network_tx, metrics, import_queue, validator_monitor,
                   monitor_readers, head_recomputes, cache_lookups, builder_requests, log>>

\* A variant of CachedPayload: the cache is asked before the block hash is looked at.
CachedPayloadBeforeZeroCheck(i) ==
    /\ inv[i].pc = "reconstruct_block"
    /\ inv[i].blinded.variant = "Merge"
    /\ execution_layer # None
    /\ LET payload_root == PayloadRoot(inv[i].blinded)
           cached_payload == GetPayloadByRoot(execution_layer, payload_root)
       IN  /\ cached_payload # None
           /\ cache_lookups' = Append(cache_lookups, payload_root)
           /\ log' = Append(log, LogLocalPayload(cached_payload))
           /\ Step(i, "publish_block", <<"get_payload_by_root", "cached_payload">>,
                   [full_payload |-> cached_payload,
                    block |-> ReconstructMerge(inv[i].blinded, cached_payload)])
    /\ UNCHANGED <<chain_config, network_tx, metrics, import_queue, validator_monitor,
                   monitor_readers, head_recomputes, builder_requests>>

\* The Merge arm with a non-zero block hash and the payload in the cache: lines 272-274.
CachedPayload(i) ==
    /\ inv[i].pc = "reconstruct_block"
    /\ inv[i].blinded.variant = "Merge"
    /\ execution_layer # None
    /\ ~IsZeroHash(inv[i].blinded)
    /\ LET payload_root == PayloadRoot(inv[i].blinded)
           cached_payload == GetPayloadByRoot(execution_layer, payload_root)
       IN  /\ cached_payload # None
           /\ cache_lookups' = Append(cache_lookups, payload_root)
           /\ log' = Append(log, LogLocalPayload(cached_payload))
           /\ Step(i, "publish_block", <<"get_payload_by_root", "cached_payload">>,
                   [full_payload |-> cached_payload,
                    block |-> ReconstructMerge(inv[i].blinded, cached_payload)])
    /\ UNCHANGED <<chain_config, network_tx, metrics, import_queue, validator_monitor,
                   monitor_readers, head_recomputes, builder_requests>>

\* A variant of ProposeBlindedBlock: the builder is asked whatever the cache holds.
ProposeWithoutCacheCheck(i) ==
    /\ inv[i].pc = "reconstruct_block"
    /\ inv[i].blinded.variant = "Merge"
    /\ execution_layer # None
    /\ ~IsZeroHash(inv[i].blinded)
    /\ builder_requests' = Append(builder_requests, inv[i].blinded)
    /\ Step(i, "await_builder", <<"propose_blinded_beacon_block">>, NoUpdate)
    /\ UNCHANGED <<chain_config, network_tx, metrics, import_queue, validator_monitor,
                   monitor_readers, head_recomputes, cache_lookups, log>>

\* The Merge arm with a non-zero block hash and a cache miss: line 277 hands the
\* blinded block to the builder and awaits its answer.
ProposeBlindedBlock(i) ==
    /\ inv[i].pc = "reconstruct_block"
    /\ inv[i].blinded.variant = "Merge"
    /\ execution_layer # None
    /\ ~IsZeroHash(inv[i].blinded)
    /\ LET payload_root == PayloadRoot(inv[i].blinded)
       IN  /\ GetPayloadByRoot(execution_layer, payload_root) = None
           /\ cache_lookups' = Append(cache_lookups, payload_root)
    /\ builder_requests' = Append(builder_requests, inv[i].blinded)
    /\ Step(i, "await_builder", <<"get_payload_by_root", "propose_blinded_beacon_block">>,
            NoUpdate)
    /\ UNCHANGED <<chain_config, network_tx, metrics, import_queue, validator_monitor,
                   monitor_readers, head_recomputes, log>>

\* The builder answers Ok(full_payload): lines 283-284, then the reassembly.
BuilderReturnsPayload(i, full_payload) ==
    /\ inv[i].pc = "await_builder"
    /\ log' = Append(log, LogBuilderPayload(full_payload))
    /\ Step(i, "publish_block", <<"builder_payload">>,
            [full_payload |-> full_payload,
             block |-> ReconstructMerge(inv[i].blinded, full_payload)])
    /\ UNCHANGED <<chain_config, network_tx, metrics, import_queue, validator_monitor,
                   monitor_readers, head_recomputes, cache_lookups, builder_requests>>

\* A variant of BuilderFails: the proposal is tried again after a failure.
BuilderFailureRetried(i, e) ==
    /\ inv[i].pc = "await_builder"
    /\ Count(inv[i].trace, "builder_failed") < 1
    /\ Step(i, "reconstruct_block", <<"builder_failed">>, [cause |-> e])
    /\ UNCHANGED <<chain_config, network_tx, metrics, import_queue, validator_monitor,
                   monitor_readers, head_recomputes, cache_lookups, builder_requests, log>>

\* A variant of BuilderFails: after a failure the block is published with an empty payload.
BuilderFailureFallsBack(i, e) ==
    /\ inv[i].pc = "await_builder"
    /\ Step(i, "publish_block", <<"builder_failed">>,
            [cause |-> e,
             full_payload |-> DefaultExecutionPayload,
             block |-> ReconstructMerge(inv[i].blinded, DefaultExecutionPayload)])
    /\ UNCHANGED <<chain_config, network_tx, metrics, import_queue, validator_monitor,
                   monitor_readers, head_recomputes, cache_lookups, builder_requests, log>>

\* The builder answers Err(e): lines 277-282 map it to a rejection and return it.
BuilderFails(i, e) ==
    /\ inv[i].pc = "await_builder"
    /\ Step(i, "done", <<"builder_failed">>,
            [cause |-> e,
             result |-> CustomServerError(<<"Blind block proposal failed: ", DebugFormat(e)>>)])
    /\ UNCHANGED <<chain_config, network_tx, metrics, import_queue, validator_monitor,
                   monitor_readers, head_recomputes, cache_lookups, builder_requests, log>>


(***************************************************************************)
(* publish_block (lines 21-102).                                           *)
(***************************************************************************)
LogValidBlock(delay, root, block) ==
    [level |-> "INFO", msg |-> "Valid block from HTTP API", block_delay |-> delay,
     root |-> root, proposer_index |-> block.message.proposer_index,
     slot |-> block.message.slot]
LogTooLate(delay, root, block) ==
    [level |-> "CRIT", msg |-> "Block was broadcast too late", delay_ms |-> delay,
     slot |-> block.message.slot, root |-> root]
LogDelayed(delay, root, block) ==
    [level |-> "ERRO", msg |-> "Block broadcast was delayed", delay_ms |-> delay,
     slot |-> block.message.slot, root |-> root]
LogInvalidBlock(msg) ==
    [level |-> "ERRO", msg |-> "Invalid block provided to HTTP API", reason |-> msg]

\* A variant of LatenessLog: the two thresholds are tested one after the other.
LatenessLogBothLevels(delay, clock, root, block) ==
    LET crit_threshold == clock.unagg_attestation_production_delay
        error_threshold == crit_threshold \div 2
    IN  (IF delay >= crit_threshold THEN <<LogTooLate(delay, root, block)>> ELSE << >>)
        \o (IF delay >= error_threshold THEN <<LogDelayed(delay, root, block)>> ELSE << >>)

\* Lines 68-88: the records logged for a block broadcast delay after its slot start.
\* Durations are counted in the smallest unit of Duration, in which the division of
\* line 69 truncates.
LatenessLog(delay, clock, root, block) ==
    LET crit_threshold == clock.unagg_attestation_production_delay
        error_threshold == crit_threshold \div 2
    IN  IF delay >= crit_threshold THEN <<LogTooLate(delay, root, block)>>
        ELSE IF delay >= error_threshold THEN <<LogDelayed(delay, root, block)>>
        ELSE << >>

\* Line 27: let seen_timestamp = timestamp_now();
RecordSeenTimestamp(i, now) ==
    /\ inv[i].pc = "publish_block"
    /\ Step(i, "broadcast", <<"timestamp_now">>, [seen_timestamp |-> [some |-> now]])
    /\ UNCHANGED <<chain_config, network_tx, metrics, import_queue, validator_monitor,
                   monitor_readers, head_recomputes, cache_lookups, builder_requests, log>>

\* A variant of BroadcastBlock: the send is held back until the block is known to be valid.
BroadcastGatedOnImport(i) ==
    /\ inv[i].pc = "broadcast"
    /\ Step(i, "observe_delay", <<"send_deferred">>, NoUpdate)
    /\ UNCHANGED <<chain_config, network_tx, metrics, import_queue, validator_monitor,
                   monitor_readers, head_recomputes, cache_lookups, builder_requests, log>>

\* Line 31, the send succeeding: the block is on the network channel.
BroadcastBlock(i) ==
    /\ inv[i].pc = "broadcast"
    /\ network_tx' = Append(network_tx, PubsubBeaconBlock(inv[i].block))
    /\ Step(i, "observe_delay", <<"send">>, NoUpdate)
    /\ UNCHANGED <<chain_config, metrics, import_queue, validator_monitor,
                   monitor_readers, head_recomputes, cache_lookups, builder_requests, log>>

\* A variant of BroadcastFails: the error of the send is dropped and the call goes on.
BroadcastFailureIgnored(i) ==
    /\ inv[i].pc = "broadcast"
    /\ Step(i, "observe_delay", <<"send_failed">>, NoUpdate)
    /\ UNCHANGED <<chain_config, network_tx, metrics, import_queue, validator_monitor,
                   monitor_readers, head_recomputes, cache_lookups, builder_requests, log>>

\* Line 31, the send failing: the ? returns the rejection.
BroadcastFails(i) ==
    /\ inv[i].pc = "broadcast"
    /\ Step(i, "done", <<"send_failed">>, [result |-> TransportError])
    /\ UNCHANGED <<chain_config, network_tx, metrics, import_queue, validator_monitor,
                   monitor_readers, head_recomputes, cache_lookups, builder_requests, log>>

\* Lines 34-35: the delay is computed and registered with the metrics.
ObserveDelay(i) ==
    /\ inv[i].pc = "observe_delay"
    /\ LET delay == GetBlockDelayMs(inv[i].seen_timestamp.some, inv[i].block.message, slot_clock)
       IN  /\ metrics' = Append(metrics, delay)
           /\ Step(i, "process_block", <<"observe_duration">>, [delay |-> [some |-> delay]])
    /\ UNCHANGED <<chain_config, network_tx, import_queue, validator_monitor,
                   monitor_readers, head_recomputes, cache_lookups, builder_requests, log>>

\* A variant of ProcessBlock: the block of the request is imported as it was submitted.
ProcessSubmittedBlock(i) ==
    /\ inv[i].pc = "process_block"
    /\ import_queue' =
           Append(import_queue,
                  IF inv[i].entry = "publish_blinded_block" THEN inv[i].blinded
                  ELSE inv[i].block)
    /\ Step(i, "await_import", <<"process_block">>, NoUpdate)
    /\ UNCHANGED <<chain_config, network_tx, metrics, validator_monitor,
                   monitor_readers, head_recomputes, cache_lookups, builder_requests, log>>

\* Lines 37-39: the block is handed to chain.process_block, which is awaited.
ProcessBlock(i) ==
    /\ inv[i].pc = "process_block"
    /\ import_queue' = Append(import_queue, inv[i].block)
    /\ Step(i, "await_import", <<"process_block">>, NoUpdate)
    /\ UNCHANGED <<chain_config, network_tx, metrics, validator_monitor,
                   monitor_readers, head_recomputes, cache_lookups, builder_requests, log>>

\* Lines 41-49: the import returns Ok(root).
ImportSucceeds(i) ==
    /\ inv[i].pc = "await_import"
    /\ LET root == BlockRoot(inv[i].block)
       IN  /\ log' = Append(log, LogValidBlock(inv[i].delay.some, root, inv[i].block))
           /\ Step(i, "monitor_read", <<"import_ok">>, [root |-> [some |-> root]])
    /\ UNCHANGED <<chain_config, network_tx, metrics, import_queue, validator_monitor,
                   monitor_readers, head_recomputes, cache_lookups, builder_requests>>

\* A variant of ImportFails: the failed import is handled like a successful one but
\* for the result of the call.
ImportFailureStillNotifies(i, e) ==
    /\ inv[i].pc = "await_import"
    /\ LET msg == DebugFormat(e)
       IN  /\ log' = Append(log, LogInvalidBlock(msg))
           /\ validator_monitor' =
                  Append(validator_monitor,
                         [seen_timestamp |-> inv[i].seen_timestamp.some,
                          block |-> inv[i].block.message,
                          block_root |-> BlockRoot(inv[i].block),
                          slot_clock |-> slot_clock])
           /\ Step(i, "done", <<"import_err", "register_api_block">>,
                   [cause |-> e, result |-> BroadcastWithoutImport(msg)])
    /\ UNCHANGED <<chain_config, network_tx, metrics, import_queue,
                   monitor_readers, head_recomputes, cache_lookups, builder_requests>>

\* A variant of ImportFails: the error is logged and the call waits on without
\* returning a rejection.
ImportFailureHangs(i, e) ==
    /\ inv[i].pc = "await_import"
    /\ log' = Append(log, LogInvalidBlock(DebugFormat(e)))
    /\ Step(i, "hung", <<"import_err">>, [cause |-> e])
    /\ UNCHANGED <<chain_config, network_tx, metrics, import_queue, validator_monitor,
                   monitor_readers, head_recomputes, cache_lookups, builder_requests>>

\* Lines 92-100: the import returns Err(e).
ImportFails(i, e) ==
    /\ inv[i].pc = "await_import"
    /\ LET msg == DebugFormat(e)
       IN  /\ log' = Append(log, LogInvalidBlock(msg))
           /\ Step(i, "done", <<"import_err">>,
                   [cause |-> e, result |-> BroadcastWithoutImport(msg)])
    /\ UNCHANGED <<chain_config, network_tx, metrics, import_queue, validator_monitor,
                   monitor_readers, head_recomputes, cache_lookups, builder_requests>>

\* Line 52: chain.validator_monitor.read() is acquired.
MonitorRead(i) ==
    /\ inv[i].pc = "monitor_read"
    /\ monitor_readers' = monitor_readers \cup {i}
    /\ Step(i, "register_api_block", <<"validator_monitor.read">>, NoUpdate)
    /\ UNCHANGED <<chain_config, network_tx, metrics, import_queue, validator_monitor,
                   head_recomputes, cache_lookups, builder_requests, log>>

\* A variant of RegisterApiBlock: the read guard is bound to a variable that lives
\* to the end of the function.
RegisterApiBlockKeepingGuard(i) ==
    /\ inv[i].pc = "register_api_block"
    /\ i \in monitor_readers
    /\ validator_monitor' =
           Append(validator_monitor,
                  [seen_timestamp |-> inv[i].seen_timestamp.some,
                   block |-> inv[i].block.message,
                   block_root |-> inv[i].root.some,
                   slot_clock |-> slot_clock])
    /\ Step(i, "recompute_head", <<"register_api_block">>, NoUpdate)
    /\ UNCHANGED <<chain_config, network_tx, metrics, import_queue, monitor_readers,
                   head_recomputes, cache_lookups, builder_requests, log>>

\* A variant of RegisterApiBlock: the monitor is given the time of the notification.
RegisterApiBlockWithFreshTimestamp(i) ==
    /\ inv[i].pc = "register_api_block"
    /\ i \in monitor_readers
    /\ \E now \in {0, MaxTime} :
           validator_monitor' =
               Append(validator_monitor,
                      [seen_timestamp |-> now,
                       block |-> inv[i].block.message,
                       block_root |-> inv[i].root.some,
                       slot_clock |-> slot_clock])
    /\ monitor_readers' = monitor_readers \ {i}
    /\ Step(i, "recompute_head", <<"register_api_block">>, NoUpdate)
    /\ UNCHANGED <<chain_config, network_tx, metrics, import_queue,
                   head_recomputes, cache_lookups, builder_requests, log>>

\* Lines 52-57: register_api_block under the read guard, which is a temporary of
\* the statement and is dropped at its end.
RegisterApiBlock(i) ==
    /\ inv[i].pc = "register_api_block"
    /\ i \in monitor_readers
    /\ validator_monitor' =
           Append(validator_monitor,
                  [seen_timestamp |-> inv[i].seen_timestamp.some,
                   block |-> inv[i].block.message,
                   block_root |-> inv[i].root.some,
                   slot_clock |-> slot_clock])
    /\ monitor_readers' = monitor_readers \ {i}
    /\ Step(i, "recompute_head", <<"register_api_block">>, NoUpdate)
    /\ UNCHANGED <<chain_config, network_tx, metrics, import_queue,
                   head_recomputes, cache_lookups, builder_requests, log>>

\* Line 61: chain.recompute_head_at_current_slot() is called and awaited.
RecomputeHead(i) ==
    /\ inv[i].pc = "recompute_head"
    /\ head_recomputes' = head_recomputes + 1
    /\ Step(i, "await_head", <<"recompute_head_at_current_slot">>, NoUpdate)
    /\ UNCHANGED <<chain_config, network_tx, metrics, import_queue, validator_monitor,
                   monitor_readers, cache_lookups, builder_requests, log>>

\* Lines 68-90: the head recomputation returns, the delay is classified, Ok(()).
ClassifyDelay(i) ==
    /\ inv[i].pc = "await_head"
    /\ LET lateness == LatenessLog(inv[i].delay.some, slot_clock, inv[i].root.some, inv[i].block)
       IN  /\ log' = log \o lateness
           /\ Step(i, "done",
                   <<"head_recomputed">> \o [k \in DOMAIN lateness |-> lateness[k].level],
                   [result |-> OkUnit])
    /\ UNCHANGED <<chain_config, network_tx, metrics, import_queue, validator_monitor,
                   monitor_readers, head_recomputes, cache_lookups, builder_requests>>

(***************************************************************************)
(* The specification: one caller submits any block, full or blinded, to a  *)
(* node of any configuration; the other invocations stay idle.             *)
(***************************************************************************)
\* The timestamps timestamp_now() may return.
Times == {0, MaxTime}

Next ==
    \E i \in {1} :
        \/ \E b \in FullBlocks : CallPublishBlock(i, b)
        \/ \E b \in BlindedBlocks : CallPublishBlindedBlock(i, b)
        \/ ReconstructBaseBlock(i)
        \/ ReconstructAltairBlock(i)
        \/ MissingExecutionLayer(i)
        \/ ZeroHashPayload(i)
        \/ CachedPayload(i)
        \/ ProposeBlindedBlock(i)
        \/ \E p \in ResolvedPayloads : BuilderReturnsPayload(i, p)
        \/ \E e \in BuilderErrors : BuilderFails(i, e)
        \/ \E now \in Times : RecordSeenTimestamp(i, now)
        \/ BroadcastBlock(i)
        \/ BroadcastFails(i)
        \/ ObserveDelay(i)
        \/ ProcessBlock(i)
        \/ ImportSucceeds(i)
        \/ \E e \in ImportErrors : ImportFails(i, e)
        \/ MonitorRead(i)
        \/ RegisterApiBlock(i)
        \/ RecomputeHead(i)
        \/ ClassifyDelay(i)

Spec == Init /\ [][Next]_vars

(***************************************************************************)
(* The timing specification: one caller submits a full block of any slot   *)
(* at any time to a node whose slot clock has any attestation production   *)
(* delay, zero included.                                                   *)
(***************************************************************************)
TimingClocks ==
    [slot_duration : {2}, unagg_attestation_production_delay : 0..MaxThreshold]

TimingBlocks == {BlockBase("slot", v) : v \in Vals}

TimingTimes == 0..MaxTime

InitTiming ==
    /\ execution_layer = None
    /\ slot_clock \in TimingClocks
    /\ network_tx = << >>
    /\ metrics = << >>
    /\ import_queue = << >>
    /\ validator_monitor = << >>
    /\ monitor_readers = {}
    /\ head_recomputes = 0
    /\ cache_lookups = << >>
    /\ builder_requests = << >>
    /\ log = << >>
    /\ inv = [i \in Invocations |-> IdleInvocation]

NextTiming ==
    \E i \in {1} :
        \/ \E b \in TimingBlocks : CallPublishBlock(i, b)
        \/ \E now \in TimingTimes : RecordSeenTimestamp(i, now)
        \/ BroadcastBlock(i)
        \/ BroadcastFails(i)
        \/ ObserveDelay(i)
        \/ ProcessBlock(i)
        \/ ImportSucceeds(i)
        \/ \E e \in ImportErrors : ImportFails(i, e)
        \/ MonitorRead(i)
        \/ RegisterApiBlock(i)
        \/ RecomputeHead(i)
        \/ ClassifyDelay(i)

SpecTiming == InitTiming /\ [][NextTiming]_vars

(***************************************************************************)
(* The concurrent specification: every invocation is a task of the HTTP    *)
(* server; the tasks submit a full block or a blinded block whose payload  *)
(* only the builder has, and their steps interleave at will.               *)
(***************************************************************************)
ConcurrentFullBlocks == {BlockBase("none", 0)}

ConcurrentBlindedBlocks ==
    {BlockMerge("none", 0, BlindedPayload(UniformHeader(MaxVal, << >>)))}

ConcurrentPayloads == {UniformPayload(MaxVal, << >>)}

InitConcurrent ==
    /\ execution_layer = [payload_cache |-> {}]
    /\ slot_clock \in SlotClocks
    /\ network_tx = << >>
    /\ metrics = << >>
    /\ import_queue = << >>
    /\ validator_monitor = << >>
    /\ monitor_readers = {}
    /\ head_recomputes = 0
    /\ cache_lookups = << >>
    /\ builder_requests = << >>
    /\ log = << >>
    /\ inv = [i \in Invocations |-> IdleInvocation]

\* The steps invocation i takes by itself, up to its next suspension point.
RunInvocation(i) ==
    \/ ProposeBlindedBlock(i)
    \/ \E now \in {0} : RecordSeenTimestamp(i, now)
    \/ BroadcastBlock(i)
    \/ ObserveDelay(i)
    \/ ProcessBlock(i)
    \/ MonitorRead(i)
    \/ RegisterApiBlock(i)
    \/ RecomputeHead(i)

\* The returns of the collaborators invocation i is suspended on.
CollaboratorReturns(i) ==
    \/ \E p \in ConcurrentPayloads : BuilderReturnsPayload(i, p)
    \/ \E e \in {"BuilderTimeout"} : BuilderFails(i, e)
    \/ ImportSucceeds(i)
    \/ \E e \in {"ParentUnknown"} : ImportFails(i, e)
    \/ ClassifyDelay(i)

\* The steps of task i: it is called, it runs, a collaborator returns to it.
Task(i) ==
    \/ \E b \in ConcurrentFullBlocks : CallPublishBlock(i, b)
    \/ \E b \in ConcurrentBlindedBlocks : CallPublishBlindedBlock(i, b)
    \/ RunInvocation(i)
    \/ CollaboratorReturns(i)

NextConcurrent == \E i \in Invocations : Task(i)

SpecConcurrent == InitConcurrent /\ [][NextConcurrent]_vars

(***************************************************************************)
(* The fair specification: two tasks; the executor keeps running every     *)
(* task that is not suspended, and every collaborator call that is awaited *)
(* returns.                                                                *)
(***************************************************************************)
NextFair == \E i \in {1, 2} : Task(i)

SpecFair ==
    /\ InitConcurrent
    /\ [][NextFair]_vars
    /\ \A i \in Invocations : WF_vars(RunInvocation(i))
    /\ \A i \in Invocations : WF_vars(CollaboratorReturns(i))


(***************************************************************************)
(* Vocabulary of the properties.                                           *)
(***************************************************************************)
\* The number of times the invocations of S have recorded op in their traces.
RECURSIVE Total(_, _)
Total(S, op) ==
    IF S = {} THEN 0
    ELSE LET i == CHOOSE j \in S : TRUE
         IN  Count(inv[i].trace, op) + Total(S \ {i}, op)

\* In the trace of invocation i, every occurrence of a precedes every occurrence of b.
Precedes(i, a, b) ==
    \A k, l \in DOMAIN inv[i].trace :
        (inv[i].trace[k] = a /\ inv[i].trace[l] = b) => k < l

\* The invocation i reconstructs a blinded Merge block.
BlindedMerge(i) ==
    /\ inv[i].entry = "publish_blinded_block"
    /\ inv[i].blinded.variant = "Merge"

\* The header of the blinded Merge block of invocation i, and the payload of the
\* full block reconstructed from it.
BlindedHeader(i) == inv[i].blinded.message.body.execution_payload.execution_payload_header
ReconstructedPayload(i) == inv[i].block.message.body.execution_payload.execution_payload

\* The header that commits to the full payload p: its header fields, and the root of
\* its transactions in their place.
HeaderOfPayload(p) ==
    [parent_hash |-> p.parent_hash, fee_recipient |-> p.fee_recipient,
     state_root |-> p.state_root, receipts_root |-> p.receipts_root,
     logs_bloom |-> p.logs_bloom, prev_randao |-> p.prev_randao,
     block_number |-> p.block_number, gas_limit |-> p.gas_limit,
     gas_used |-> p.gas_used, timestamp |-> p.timestamp,
     extra_data |-> p.extra_data, base_fee_per_gas |-> p.base_fee_per_gas,
     block_hash |-> p.block_hash, transactions_root |-> TreeHashRoot(p.transactions)]

\* The blinded block of the full Merge block full: its payload replaced by its header.
BlindedBlockOf(full) ==
    [full EXCEPT !.message.body.execution_payload =
        BlindedPayload(HeaderOfPayload(@.execution_payload))]

\* The blinded Merge block b with the full payload p in the place of its header.
WithFullPayload(b, p) == [b EXCEPT !.message.body.execution_payload = FullPayload(p)]

\* The payload the cache holds under the root of the blinded payload of invocation i.
CachedFor(i) ==
    GetPayloadByRoot(execution_layer, TreeHashRoot(inv[i].blinded.message.body.execution_payload))

\* Invocation i has reconstructed the blinded block of a full block whose payload
\* the cache holds under the root of the blinded payload.
RoundTripCase(i) ==
    /\ BlindedMerge(i)
    /\ execution_layer # None
    /\ CachedFor(i) # None
    /\ BlindedBlockOf(WithFullPayload(inv[i].blinded, CachedFor(i))) = inv[i].blinded
    /\ inv[i].block # None

\* The lateness diagnostics of lines 70-88 among the log records.
LatenessRecords ==
    {k \in DOMAIN log : log[k].msg \in {"Block was broadcast too late",
                                        "Block broadcast was delayed"}}

\* The positions at which an invocation is suspended on a collaborator: the builder
\* call (line 278), the import (line 39), the head recomputation (line 61).
SuspensionPoints == {"await_builder", "await_import", "await_head"}

\* The steps by which an awaited collaborator call returns to its invocation.
ReturnSteps ==
    {"builder_payload", "builder_failed", "import_ok", "import_err", "head_recomputed"}

\* The steps of the successful path of publish_block, in the order of the code.
SuccessSteps ==
    <<"timestamp_now", "send", "observe_duration", "process_block", "import_ok",
      "validator_monitor.read", "register_api_block", "recompute_head_at_current_slot",
      "head_recomputed">>

\* The lateness diagnostics of the given level among the log records.
LatenessOfLevel(level) == {k \in LatenessRecords : log[k].level = level}

\* The late threshold of the slot clock, and the second threshold, its half.
LateThreshold == slot_clock.unagg_attestation_production_delay
HalfThreshold == LateThreshold \div 2

\* The delay from the start of the slot of the block of invocation i to its arrival.
MeasuredDelay(i) ==
    IF inv[i].seen_timestamp.some >= slot_clock.slot_duration * inv[i].block.message.slot
    THEN inv[i].seen_timestamp.some - slot_clock.slot_duration * inv[i].block.message.slot
    ELSE 0

(***************************************************************************)
(* C1. In every invocation the block is sent on the network channel        *)
(* exactly once: the send is attempted once and never again, and whenever  *)
(* the block has been handed to process_block the send has succeeded       *)
(* before that, so the block is on the channel before the import outcome   *)
(* exists, whether the import then succeeds or fails.                      *)
(***************************************************************************)
BroadcastOnceBeforeImport ==
    /\ \A i \in Invocations :
        /\ Count(inv[i].trace, "send") + Count(inv[i].trace, "send_failed") <= 1
        /\ Has(inv[i].trace, "process_block") =>
              /\ Count(inv[i].trace, "send") = 1
              /\ Precedes(i, "send", "process_block")
              /\ Precedes(i, "send", "import_ok")
              /\ Precedes(i, "send", "import_err")
              /\ Count(network_tx, PubsubBeaconBlock(inv[i].block)) >= 1
        /\ (inv[i].pc = "done" /\ Has(inv[i].trace, "timestamp_now")) =>
              Count(inv[i].trace, "send") + Count(inv[i].trace, "send_failed") = 1
    /\ Len(network_tx) = Total(Invocations, "send")

\* An import has failed and another has not been asked for, with the block sent once.
BroadcastOnceBeforeImportWitness ==
    \E i \in Invocations :
        /\ inv[i].pc = "done"
        /\ Has(inv[i].trace, "import_err")
        /\ network_tx = <<PubsubBeaconBlock(inv[i].block)>>


(***************************************************************************)
(* C2. When the import fails the call returns the rejection                *)
(* broadcast_without_import carrying the Debug string of the cause; the    *)
(* block stays on the network channel, sent once and not again; the delay  *)
(* metric has been observed once; the validator monitor is not notified,   *)
(* the head is not recomputed and no lateness diagnostic is logged.        *)
(***************************************************************************)
ImportFailureRejects ==
    \A i \in Invocations :
        Has(inv[i].trace, "import_err") =>
            /\ inv[i].pc = "done"
            /\ inv[i].cause \in ImportErrors
            /\ inv[i].result = BroadcastWithoutImport(DebugFormat(inv[i].cause))
            /\ Count(inv[i].trace, "send") = 1
            /\ Count(network_tx, PubsubBeaconBlock(inv[i].block)) = 1
            /\ Count(inv[i].trace, "observe_duration") = 1
            /\ metrics = <<inv[i].delay.some>>
            /\ ~Has(inv[i].trace, "validator_monitor.read")
            /\ ~Has(inv[i].trace, "register_api_block")
            /\ ~Has(inv[i].trace, "recompute_head_at_current_slot")
            /\ ~Has(inv[i].trace, "CRIT") /\ ~Has(inv[i].trace, "ERRO")
            /\ validator_monitor = << >>
            /\ monitor_readers = {}
            /\ head_recomputes = 0
            /\ LatenessRecords = {}
            /\ log[Len(log)] = LogInvalidBlock(DebugFormat(inv[i].cause))

\* The import of a block seen late enough for a diagnostic has failed.
ImportFailureRejectsWitness ==
    \E i \in Invocations :
        /\ Has(inv[i].trace, "import_err")
        /\ inv[i].result = BroadcastWithoutImport(DebugFormat("ParentUnknown"))
        /\ inv[i].delay.some >= slot_clock.unagg_attestation_production_delay
        /\ Len(network_tx) = 1

(***************************************************************************)
(* C3. When the send on the network channel fails the call returns an      *)
(* error at once: no delay is observed, the block is not handed to         *)
(* process_block, the validator monitor is not notified and the head is    *)
(* not recomputed.                                                         *)
(***************************************************************************)
BroadcastFailureAborts ==
    \A i \in Invocations :
        Has(inv[i].trace, "send_failed") =>
            /\ inv[i].pc = "done"
            /\ inv[i].result = TransportError
            /\ inv[i].trace[Len(inv[i].trace)] = "send_failed"
            /\ ~Has(inv[i].trace, "send")
            /\ ~Has(inv[i].trace, "observe_duration")
            /\ ~Has(inv[i].trace, "process_block")
            /\ ~Has(inv[i].trace, "register_api_block")
            /\ ~Has(inv[i].trace, "recompute_head_at_current_slot")
            /\ network_tx = << >> /\ metrics = << >> /\ import_queue = << >>
            /\ validator_monitor = << >> /\ head_recomputes = 0

\* The send of a reconstructed block has failed.
BroadcastFailureAbortsWitness ==
    \E i \in Invocations :
        /\ Has(inv[i].trace, "send_failed")
        /\ inv[i].entry = "publish_blinded_block"
        /\ inv[i].result = TransportError


(***************************************************************************)
(* C4. For every blinded Merge block that has been reconstructed, from the *)
(* default payload, from the cache or from the builder, every header field *)
(* of the full payload equals that field of the blinded header, whatever   *)
(* payload was resolved; the transactions are those of the resolved        *)
(* payload.                                                                *)
(***************************************************************************)
HeaderFieldsFromBlindedHeader ==
    \A i \in Invocations :
        (BlindedMerge(i) /\ inv[i].block # None) =>
            /\ \A f \in HeaderFields : ReconstructedPayload(i)[f] = BlindedHeader(i)[f]
            /\ ReconstructedPayload(i).transactions = inv[i].full_payload.transactions
            /\ \/ Has(inv[i].trace, "default_payload")
               \/ Has(inv[i].trace, "cached_payload")
               \/ Has(inv[i].trace, "builder_payload")

\* The cache has served a payload that differs from the blinded header in every
\* header field, and the block has been reconstructed from it.
HeaderFieldsFromBlindedHeaderWitness ==
    \E i \in Invocations :
        /\ BlindedMerge(i) /\ inv[i].block # None
        /\ Has(inv[i].trace, "cached_payload")
        /\ \A f \in HeaderFields : inv[i].full_payload[f] # BlindedHeader(i)[f]
        /\ inv[i].full_payload.transactions # << >>

(***************************************************************************)
(* C5. For every blinded Merge block with a non-zero block hash whose      *)
(* payload root is in the payload cache, the builder is never called.      *)
(***************************************************************************)
CacheHitSkipsBuilder ==
    \A i \in Invocations :
        ( /\ BlindedMerge(i)
          /\ execution_layer # None
          /\ HeaderBlockHash(inv[i].blinded) # ZeroBlockHash
          /\ \E c \in execution_layer.payload_cache : c.root = PayloadRoot(inv[i].blinded) )
        =>  /\ ~Has(inv[i].trace, "propose_blinded_beacon_block")
            /\ inv[i].pc # "await_builder"
            /\ ~Has(builder_requests, inv[i].blinded)
            /\ inv[i].block # None =>
                  /\ Has(inv[i].trace, "cached_payload")
                  /\ inv[i].full_payload \in {c.payload : c \in execution_layer.payload_cache}

\* A block reconstructed from the cache has been published.
CacheHitSkipsBuilderWitness ==
    \E i \in Invocations :
        /\ BlindedMerge(i)
        /\ Has(inv[i].trace, "cached_payload")
        /\ inv[i].pc = "done"
        /\ builder_requests = << >>

(***************************************************************************)
(* C6. For every blinded Merge block whose block hash is zero, neither the *)
(* payload cache is looked up nor the builder called, also when the cache  *)
(* holds a payload under the root of the block's payload.                  *)
(***************************************************************************)
ZeroHashAsksNobody ==
    \A i \in Invocations :
        (BlindedMerge(i) /\ HeaderBlockHash(inv[i].blinded) = ZeroBlockHash) =>
            /\ ~Has(inv[i].trace, "get_payload_by_root")
            /\ ~Has(inv[i].trace, "propose_blinded_beacon_block")
            /\ ~Has(inv[i].trace, "cached_payload")
            /\ ~Has(inv[i].trace, "builder_payload")
            /\ ~Has(cache_lookups, PayloadRoot(inv[i].blinded))
            /\ ~Has(builder_requests, inv[i].blinded)

\* A zero-hash block has been reconstructed while the cache held a payload under
\* its root.
ZeroHashAsksNobodyWitness ==
    \E i \in Invocations :
        /\ BlindedMerge(i) /\ HeaderBlockHash(inv[i].blinded) = ZeroBlockHash
        /\ execution_layer # None
        /\ \E c \in execution_layer.payload_cache : c.root = PayloadRoot(inv[i].blinded)
        /\ inv[i].block # None


(***************************************************************************)
(* C7, as claimed. For every blinded Merge block whose block hash is zero, *)
(* the payload of the reconstructed block is the default execution         *)
(* payload: no transactions and zero-valued header fields, whatever the    *)
(* other fields of the blinded header are.                                 *)
(***************************************************************************)
ZeroHashGivesDefaultPayload ==
    \A i \in Invocations :
        (BlindedMerge(i) /\ HeaderBlockHash(inv[i].blinded) = ZeroBlockHash
            /\ inv[i].block # None)
        => ReconstructedPayload(i) = DefaultExecutionPayload

(***************************************************************************)
(* C7, amended. For every blinded Merge block whose block hash is zero,    *)
(* the payload of the reconstructed block has no transactions and a zero   *)
(* block hash, and its other header fields are those of the blinded        *)
(* header: it is the default execution payload exactly when every field of *)
(* the blinded header is zero.                                             *)
(***************************************************************************)
ZeroHashGivesEmptyPayload ==
    \A i \in Invocations :
        (BlindedMerge(i) /\ HeaderBlockHash(inv[i].blinded) = ZeroBlockHash
            /\ inv[i].block # None)
        =>  /\ ReconstructedPayload(i).transactions = << >>
            /\ ReconstructedPayload(i).block_hash = ZeroBlockHash
            /\ inv[i].full_payload = DefaultExecutionPayload
            /\ \A f \in HeaderFields : ReconstructedPayload(i)[f] = BlindedHeader(i)[f]
            /\ (ReconstructedPayload(i) = DefaultExecutionPayload)
                  <=> (\A f \in HeaderFields : BlindedHeader(i)[f] = 0)

\* A zero-hash block whose header has a non-zero field has been reconstructed.
ZeroHashGivesEmptyPayloadWitness ==
    \E i \in Invocations :
        /\ BlindedMerge(i) /\ HeaderBlockHash(inv[i].blinded) = ZeroBlockHash
        /\ inv[i].block # None
        /\ \E f \in HeaderFields : BlindedHeader(i)[f] # 0
        /\ ReconstructedPayload(i) # DefaultExecutionPayload

(***************************************************************************)
(* C8. For every blinded Merge block with a non-zero block hash whose      *)
(* payload root is not in the cache, the builder is called exactly once:   *)
(* not again after it failed and not again after it answered.              *)
(***************************************************************************)
BuilderCalledOnce ==
    \A i \in Invocations :
        ( /\ BlindedMerge(i)
          /\ execution_layer # None
          /\ HeaderBlockHash(inv[i].blinded) # ZeroBlockHash
          /\ \A c \in execution_layer.payload_cache : c.root # PayloadRoot(inv[i].blinded) )
        =>  /\ Count(inv[i].trace, "propose_blinded_beacon_block") <= 1
            /\ Count(inv[i].trace, "builder_failed")
                  + Count(inv[i].trace, "builder_payload") <= 1
            /\ inv[i].pc # "reconstruct_block" =>
                  /\ Count(inv[i].trace, "propose_blinded_beacon_block") = 1
                  /\ Count(builder_requests, inv[i].blinded) = 1
            /\ inv[i].pc = "done" =>
                  Count(inv[i].trace, "builder_failed")
                      + Count(inv[i].trace, "builder_payload") = 1

\* The builder has failed and the call has returned, the builder asked once.
BuilderCalledOnceWitness ==
    \E i \in Invocations :
        /\ BlindedMerge(i)
        /\ inv[i].pc = "done"
        /\ Has(inv[i].trace, "builder_failed")
        /\ builder_requests = <<inv[i].blinded>>

(***************************************************************************)
(* C9. When the builder fails, publish_blinded_block returns the rejection *)
(* that embeds the cause, and publish_block is not entered: nothing is     *)
(* sent, no delay is observed, nothing is handed to process_block.         *)
(***************************************************************************)
BuilderFailureRejects ==
    \A i \in Invocations :
        Has(inv[i].trace, "builder_failed") =>
            /\ inv[i].pc = "done"
            /\ inv[i].cause \in BuilderErrors
            /\ inv[i].result =
                  CustomServerError(<<"Blind block proposal failed: ",
                                      DebugFormat(inv[i].cause)>>)
            /\ inv[i].block = None
            /\ inv[i].trace[Len(inv[i].trace)] = "builder_failed"
            /\ ~Has(inv[i].trace, "timestamp_now")
            /\ ~Has(inv[i].trace, "send") /\ ~Has(inv[i].trace, "send_failed")
            /\ ~Has(inv[i].trace, "observe_duration")
            /\ ~Has(inv[i].trace, "process_block")
            /\ network_tx = << >> /\ metrics = << >> /\ import_queue = << >>

\* The builder has timed out.
BuilderFailureRejectsWitness ==
    \E i \in Invocations :
        /\ Has(inv[i].trace, "builder_failed")
        /\ inv[i].cause = "BuilderTimeout"
        /\ inv[i].result.rejection = "custom_server_error"

(***************************************************************************)
(* C10. Without an execution layer the reconstruction of a blinded Merge   *)
(* block, its block hash zero or not, returns at once the server error     *)
(* "Missing execution layer", which is not the rejection of a failed       *)
(* import: the cache is not looked up, the builder not called, and the     *)
(* block is neither sent nor handed to process_block.                      *)
(***************************************************************************)
MissingExecutionLayerRejects ==
    \A i \in Invocations :
        (BlindedMerge(i) /\ execution_layer = None /\ inv[i].pc # "reconstruct_block") =>
            /\ inv[i].pc = "done"
            /\ inv[i].result = CustomServerError("Missing execution layer")
            /\ inv[i].result.rejection # "broadcast_without_import"
            /\ inv[i].trace = <<"publish_blinded_block", "missing_execution_layer">>
            /\ inv[i].block = None
            /\ cache_lookups = << >> /\ builder_requests = << >>
            /\ network_tx = << >> /\ metrics = << >> /\ import_queue = << >>

\* A zero-hash block has been rejected for want of an execution layer.
MissingExecutionLayerRejectsWitness ==
    \E i \in Invocations :
        /\ BlindedMerge(i) /\ execution_layer = None
        /\ HeaderBlockHash(inv[i].blinded) = ZeroBlockHash
        /\ inv[i].pc = "done"
        /\ Has(inv[i].trace, "missing_execution_layer")


(***************************************************************************)
(* C11. For every blinded Base or Altair block the reconstruction is a     *)
(* copy: the full block has the variant of the blinded block and each of   *)
(* its fields (slot, proposer index, parent root, state root, every body   *)
(* field, signature) unchanged; neither the payload cache nor the builder  *)
(* is asked, and the reconstruction succeeds without an execution layer.   *)
(***************************************************************************)
PreMergeReconstructionCopies ==
    \A i \in Invocations :
        ( /\ inv[i].entry = "publish_blinded_block"
          /\ inv[i].blinded.variant \in {"Base", "Altair"}
          /\ inv[i].pc # "reconstruct_block" )
        =>  /\ inv[i].block # None
            /\ inv[i].block.variant = inv[i].blinded.variant
            /\ \A f \in {"slot", "proposer_index", "parent_root", "state_root"} :
                  inv[i].block.message[f] = inv[i].blinded.message[f]
            /\ DOMAIN inv[i].block.message.body = DOMAIN inv[i].blinded.message.body
            /\ \A f \in DOMAIN inv[i].blinded.message.body :
                  inv[i].block.message.body[f] = inv[i].blinded.message.body[f]
            /\ inv[i].block.signature = inv[i].blinded.signature
            /\ inv[i].block = inv[i].blinded
            /\ inv[i].trace[2] = "copied"
            /\ ~Has(inv[i].trace, "missing_execution_layer")
            /\ ~Has(inv[i].trace, "get_payload_by_root")
            /\ ~Has(inv[i].trace, "propose_blinded_beacon_block")
            /\ cache_lookups = << >> /\ builder_requests = << >>

\* An Altair block with a sync aggregate has been reconstructed and published by a
\* node without an execution layer.
PreMergeReconstructionCopiesWitness ==
    \E i \in Invocations :
        /\ inv[i].entry = "publish_blinded_block"
        /\ inv[i].blinded.variant = "Altair"
        /\ inv[i].blinded.message.body.sync_aggregate # 0
        /\ execution_layer = None
        /\ inv[i].result = OkUnit


(***************************************************************************)
(* C12, as claimed. Round trip: if the blinded block is that of a full     *)
(* Merge block F (transactions replaced by their root, header intact) and  *)
(* the payload of F is cached under the root of the blinded payload, the   *)
(* reconstructed block equals F.                                           *)
(***************************************************************************)
RoundTripReproducesFullBlock ==
    \A i \in Invocations :
        RoundTripCase(i) => inv[i].block = WithFullPayload(inv[i].blinded, CachedFor(i))

(***************************************************************************)
(* C12, amended. Round trip: if the blinded block is that of a full Merge  *)
(* block F and the payload of F is cached under the root of the blinded    *)
(* payload, the reconstructed block equals F provided the block hash of F  *)
(* is not zero or F has no transactions; with a zero block hash the        *)
(* reconstructed block is F without its transactions.                      *)
(***************************************************************************)
RoundTripReproducesHashedBlock ==
    \A i \in Invocations :
        RoundTripCase(i) =>
            LET F == WithFullPayload(inv[i].blinded, CachedFor(i))
                full_hash == F.message.body.execution_payload.execution_payload.block_hash
                full_txs == F.message.body.execution_payload.execution_payload.transactions
            IN  /\ (full_hash # ZeroBlockHash \/ full_txs = << >>) => inv[i].block = F
                /\ full_hash = ZeroBlockHash =>
                      inv[i].block =
                          WithFullPayload(inv[i].blinded,
                                          [CachedFor(i) EXCEPT !.transactions = << >>])

\* A block with a non-zero hash and a transaction has been reconstructed from the
\* cached payload of the full block it was blinded from.
RoundTripReproducesHashedBlockWitness ==
    \E i \in Invocations :
        /\ RoundTripCase(i)
        /\ HeaderBlockHash(inv[i].blinded) # ZeroBlockHash
        /\ CachedFor(i).transactions # << >>
        /\ inv[i].block = WithFullPayload(inv[i].blinded, CachedFor(i))


(***************************************************************************)
(* C13. After a successful import with a non-zero late threshold L exactly *)
(* one outcome occurs: a delay of at least L logs one CRIT diagnostic and  *)
(* no ERRO diagnostic; a delay of at least L/2 and less than L logs one    *)
(* ERRO diagnostic and no CRIT diagnostic; a smaller delay logs neither.   *)
(* Before the classification nothing is logged about lateness.             *)
(***************************************************************************)
DelayClassifiedInTiers ==
    \A i \in {1} :
        LateThreshold # 0 =>
            IF inv[i].result = OkUnit
            THEN LET d == MeasuredDelay(i) IN
                 /\ inv[i].delay.some = d
                 /\ d >= LateThreshold =>
                       /\ Cardinality(LatenessOfLevel("CRIT")) = 1
                       /\ LatenessOfLevel("ERRO") = {}
                       /\ \A k \in LatenessRecords :
                              /\ log[k].msg = "Block was broadcast too late"
                              /\ log[k].delay_ms = d
                 /\ (HalfThreshold <= d /\ d < LateThreshold) =>
                       /\ Cardinality(LatenessOfLevel("ERRO")) = 1
                       /\ LatenessOfLevel("CRIT") = {}
                       /\ \A k \in LatenessRecords :
                              /\ log[k].msg = "Block broadcast was delayed"
                              /\ log[k].delay_ms = d
                 /\ d < HalfThreshold => LatenessRecords = {}
            ELSE LatenessRecords = {}

\* A block has been imported with a delay between the two non-zero thresholds.
DelayClassifiedInTiersWitness ==
    \E i \in {1} :
        /\ inv[i].result = OkUnit
        /\ HalfThreshold # 0
        /\ HalfThreshold <= MeasuredDelay(i)
        /\ MeasuredDelay(i) < LateThreshold
        /\ LatenessOfLevel("ERRO") # {}

(***************************************************************************)
(* C14. When the late threshold of the slot clock is zero, so that both    *)
(* thresholds are zero, publish_block logs no lateness diagnostic, CRIT or *)
(* ERRO, for any measured delay.                                           *)
(***************************************************************************)
ZeroThresholdsDisableClassification ==
    \A i \in {1} :
        (LateThreshold = 0 /\ inv[i].result = OkUnit) => LatenessRecords = {}


(***************************************************************************)
(* C15. On the successful path of publish_block each step occurs once and  *)
(* in this order: the arrival timestamp is recorded, the block is sent,    *)
(* the delay is measured, the import returns the root R, the validator     *)
(* monitor is notified with that timestamp and R, the head recomputation   *)
(* is triggered and awaited, the measured delay is classified, Ok is       *)
(* returned. The monitor is never notified and the head never recomputed   *)
(* before the import has returned successfully.                            *)
(***************************************************************************)
SuccessPathInOrder ==
    \A i \in Invocations :
        /\ inv[i].result = OkUnit =>
              /\ \A k \in DOMAIN SuccessSteps : Count(inv[i].trace, SuccessSteps[k]) = 1
              /\ \A k, l \in DOMAIN SuccessSteps :
                     k < l => Precedes(i, SuccessSteps[k], SuccessSteps[l])
              /\ \A k \in DOMAIN inv[i].trace :
                     inv[i].trace[k] \in {"CRIT", "ERRO"} =>
                         \E l \in 1..(k - 1) : inv[i].trace[l] = "head_recomputed"
              /\ ~Has(inv[i].trace, "import_err")
              /\ inv[i].root.some = BlockRoot(inv[i].block)
              /\ Len(validator_monitor) = 1
              /\ validator_monitor[1].seen_timestamp = inv[i].seen_timestamp.some
              /\ validator_monitor[1].block_root = inv[i].root.some
              /\ validator_monitor[1].block = inv[i].block.message
              /\ head_recomputes = 1
              /\ metrics = <<inv[i].delay.some>>
              /\ \A k \in LatenessRecords : log[k].delay_ms = inv[i].delay.some
              /\ inv[i].pc = "done"
        /\ ~Has(inv[i].trace, "import_ok") =>
              /\ ~Has(inv[i].trace, "validator_monitor.read")
              /\ ~Has(inv[i].trace, "register_api_block")
              /\ ~Has(inv[i].trace, "recompute_head_at_current_slot")
        /\ (\A j \in Invocations : ~Has(inv[j].trace, "import_ok")) =>
              /\ validator_monitor = << >>
              /\ monitor_readers = {}
              /\ head_recomputes = 0

\* A block that arrived late has been published with success.
SuccessPathInOrderWitness ==
    \E i \in Invocations :
        /\ inv[i].result = OkUnit
        /\ inv[i].seen_timestamp.some = MaxTime
        /\ LatenessRecords # {}
        /\ Len(validator_monitor) = 1


(***************************************************************************)
(* C16. With the invocations interleaved, no invocation holds the read     *)
(* acquisition of the validator monitor while it is suspended in the       *)
(* import, the head recomputation or a builder call: a holder is at the    *)
(* notification, which it can complete, releasing the acquisition, without *)
(* any collaborator returning; and every invocation that is not suspended  *)
(* can take its next step however many others are stalled.                 *)
(***************************************************************************)
ReadNotHeldWhileSuspended ==
    \A i \in Invocations :
        /\ inv[i].pc \in SuspensionPoints \cup {"idle", "done"} => i \notin monitor_readers
        /\ i \in monitor_readers =>
              /\ inv[i].pc = "register_api_block"
              /\ inv[i].trace[Len(inv[i].trace)] = "validator_monitor.read"
              /\ ENABLED RegisterApiBlock(i)
        /\ inv[i].pc \notin SuspensionPoints \cup {"idle", "done"} => ENABLED RunInvocation(i)

\* One invocation holds the read acquisition while another is suspended in the import
\* after the first and has not been answered.
ReadNotHeldWhileSuspendedWitness ==
    \E i, j \in Invocations :
        /\ i # j
        /\ inv[i].pc = "await_import"
        /\ j \in monitor_readers
        /\ import_queue[1] = inv[i].block
        /\ inv[i].entry # inv[j].entry


(***************************************************************************)
(* C17. For every blinded Merge block, whether its hash is zero, its       *)
(* payload is cached or the builder is asked, the reconstructed block has  *)
(* the variant, slot, proposer index, parent root, state root, signature   *)
(* and every body field but the payload of the blinded block; the payload  *)
(* field alone changes shape, from a header to a full payload; and the     *)
(* block handed to the builder is the blinded block as it was submitted.   *)
(***************************************************************************)
MergeReconstructionKeepsFrame ==
    \A i \in Invocations :
        BlindedMerge(i) =>
            /\ inv[i].block # None =>
                  /\ inv[i].block.variant = inv[i].blinded.variant
                  /\ \A f \in {"slot", "proposer_index", "parent_root", "state_root"} :
                         inv[i].block.message[f] = inv[i].blinded.message[f]
                  /\ inv[i].block.signature = inv[i].blinded.signature
                  /\ DOMAIN inv[i].block = DOMAIN inv[i].blinded
                  /\ DOMAIN inv[i].block.message = DOMAIN inv[i].blinded.message
                  /\ DOMAIN inv[i].block.message.body = DOMAIN inv[i].blinded.message.body
                  /\ \A f \in DOMAIN inv[i].blinded.message.body \ {"execution_payload"} :
                         inv[i].block.message.body[f] = inv[i].blinded.message.body[f]
                  /\ DOMAIN inv[i].block.message.body.execution_payload = {"execution_payload"}
                  /\ DOMAIN inv[i].blinded.message.body.execution_payload
                        = {"execution_payload_header"}
                  /\ \/ Has(inv[i].trace, "default_payload")
                     \/ Has(inv[i].trace, "cached_payload")
                     \/ Has(inv[i].trace, "builder_payload")
            /\ \A k \in DOMAIN builder_requests : builder_requests[k] = inv[i].blinded
            /\ Has(inv[i].trace, "propose_blinded_beacon_block") =>
                  builder_requests = <<inv[i].blinded>>

\* A blinded Merge block with a sync aggregate has been reconstructed with the
\* payload the builder returned for it.
MergeReconstructionKeepsFrameWitness ==
    \E i \in Invocations :
        /\ BlindedMerge(i)
        /\ inv[i].block # None
        /\ inv[i].blinded.message.body.sync_aggregate # 0
        /\ Has(inv[i].trace, "builder_payload")
        /\ builder_requests = <<inv[i].blinded>>
        /\ ReconstructedPayload(i).transactions # << >>


(***************************************************************************)
(* C18. For every blinded Merge block that has been turned into a full     *)
(* block, the root of the transactions of the full payload is the          *)
(* transactions root of the blinded header, whatever payload the cache or  *)
(* the builder returned.                                                   *)
(***************************************************************************)
TransactionsSatisfyCommitment ==
    \A i \in Invocations :
        (BlindedMerge(i) /\ inv[i].block # None) =>
            TreeHashRoot(ReconstructedPayload(i).transactions)
                = BlindedHeader(i).transactions_root

(***************************************************************************)
(* C20. In every invocation the block handed to the import is the block    *)
(* that was broadcast; for a blinded submission both are the reconstructed *)
(* full block, and nothing is broadcast or imported before the             *)
(* reconstruction; a blinded Merge block itself is never broadcast or      *)
(* imported.                                                               *)
(***************************************************************************)
ImportedBlockIsBroadcastBlock ==
    \A i \in {1} :
        /\ \A k \in DOMAIN import_queue :
               /\ k \in DOMAIN network_tx
               /\ network_tx[k] = PubsubBeaconBlock(import_queue[k])
        /\ Has(inv[i].trace, "send") => network_tx = <<PubsubBeaconBlock(inv[i].block)>>
        /\ Has(inv[i].trace, "process_block") => import_queue = <<inv[i].block>>
        /\ inv[i].entry = "publish_blinded_block" =>
              /\ inv[i].block = None => (network_tx = << >> /\ import_queue = << >>)
              /\ (inv[i].block # None /\ inv[i].blinded.variant = "Base") =>
                    inv[i].block = ReconstructBase(inv[i].blinded)
              /\ (inv[i].block # None /\ inv[i].blinded.variant = "Altair") =>
                    inv[i].block = ReconstructAltair(inv[i].blinded)
              /\ (inv[i].block # None /\ inv[i].blinded.variant = "Merge") =>
                    /\ inv[i].full_payload # None
                    /\ inv[i].block = ReconstructMerge(inv[i].blinded, inv[i].full_payload)
                    /\ \A k \in DOMAIN network_tx :
                           /\ network_tx[k].block # inv[i].blinded
                           /\ DOMAIN network_tx[k].block.message.body.execution_payload
                                 = {"execution_payload"}
                    /\ \A k \in DOMAIN import_queue :
                           /\ import_queue[k] # inv[i].blinded
                           /\ DOMAIN import_queue[k].message.body.execution_payload
                                 = {"execution_payload"}

\* The full block reconstructed from a blinded Merge block has been broadcast and
\* handed to the import.
ImportedBlockIsBroadcastBlockWitness ==
    \E i \in {1} :
        /\ BlindedMerge(i)
        /\ Has(inv[i].trace, "process_block")
        /\ import_queue = <<inv[i].block>>
        /\ network_tx = <<PubsubBeaconBlock(inv[i].block)>>
        /\ ReconstructedPayload(i).transactions # << >>


(***************************************************************************)
(* C19. If every collaborator call that is awaited returns, every          *)
(* invocation that was called terminates with a result, Ok or a rejection, *)
(* which it has exactly when it is done and which never changes; and since *)
(* there is no timeout or cancellation, a suspended invocation stays where *)
(* it is, without a result, in every step that is not the return of the    *)
(* collaborator it awaits.                                                 *)
(***************************************************************************)
InvocationsTerminate ==
    /\ \A i \in Invocations :
           (inv[i].pc # "idle") ~> (inv[i].pc = "done" /\ inv[i].result # NoResult)
    /\ [](\A i \in Invocations :
              /\ (inv[i].pc = "done") <=> (inv[i].result # NoResult)
              /\ inv[i].result # NoResult =>
                    \/ inv[i].result = OkUnit
                    \/ "rejection" \in DOMAIN inv[i].result)
    /\ [][\A i \in Invocations :
              /\ inv[i].result # NoResult =>
                    /\ inv'[i].result = inv[i].result
                    /\ inv'[i].trace = inv[i].trace
              /\ inv[i].pc \in SuspensionPoints =>
                    \/ /\ inv'[i].pc = inv[i].pc
                       /\ inv'[i].result = NoResult
                       /\ inv'[i].trace = inv[i].trace
                    \/ /\ Len(inv'[i].trace) > Len(inv[i].trace)
                       /\ inv'[i].trace[Len(inv[i].trace) + 1] \in ReturnSteps]_vars

\* Of two interleaved invocations one has returned Ok and the other the rejection of
\* a failed builder call.
InvocationsTerminateWitness ==
    \E i, j \in Invocations :
        /\ inv[i].result = OkUnit
        /\ inv[j].pc = "done"
        /\ Has(inv[j].trace, "builder_failed")
        /\ "rejection" \in DOMAIN inv[j].result

====
